---- MODULE Spec2Model ----
(***************************************************************************)
(* Persistent simulation engine (backend/src/simulation_engine.rs) driving *)
(* a boids Model with two device layouts (backend/src/physics/boids.rs).   *)
(*                                                                         *)
(* Abstractions, all stated here:                                          *)
(*  - f32 field values are small integers; the flocking force computation  *)
(*    of one entity is reduced to its position update with wrap-around     *)
(*    (boids.rs 351-367), which changes x and y at every step.             *)
(*  - the f32 target rate is fixed-point, FpsScale units per Hz.           *)
(*  - wall-clock durations are reduced to the outcome of the comparison    *)
(*    elapsed > target_duration ("over" / "under").                        *)
(*  - a failed device operation returns its error and leaves the device    *)
(*    buffer it was to write unchanged.                                    *)
(*  - on the wire (backend/src/broadcast.rs, main.rs send branch) an f32   *)
(*    is its binary32 fields (sign, exponent, fraction); subtraction and   *)
(*    addition round to nearest even. A Model field value n is the f32 n.  *)
(*  - in a run whose iterations never run out (SpecLive) the u64 frame     *)
(*    counter is followed up to MaxFrames only.                            *)
(*  - the tokio broadcast channel (main.rs 371) is its write position and  *)
(*    one read position per Receiver; a published snapshot is named by its *)
(*    position. In the specifications of the channel the engine is at rest *)
(*    and the result of each encode is a choice of the environment.        *)
(*  - Instant::elapsed().as_secs() of a send task is a counter of whole    *)
(*    seconds, followed up to the first value the keepalive test passes.   *)
(*  - the engine's seven mutexes are followed one lock() at a time in a    *)
(*    separate specification (SpecLocks), where a thread is the list of    *)
(*    lock(), guard drops and flag statements it still has to run; in the  *)
(*    other specifications only the simulation mutex has an owner and the  *)
(*    short critical sections of the other six are single steps.           *)
(***************************************************************************)
EXTENDS Integers, Sequences, FiniteSets, TLC

\* ------------------------------------------------------------------ bounds
MaxBoids == 2
Wrap == 3
MaxThreads == 2
MaxCalls == 3
MaxFast == 2
MaxFail == 1
RateSlow == 852
MixSlow == 100
RaceSlow == 51
MaxFrames == 2
LiveCalls == 2
MaxSnap == 2
MaxStamp == 1
MaxCut == 3
EncCalls == 2
MaxConns == 2
MaxEarly == 2
MaxExtra == 2
MaxTicks == 3
MaxIdle == 3
MaxInbound == 2
LockLoops == 1
LockCallers == 2

\* ------------------------------------------------------- program constants
FRAME_TIME_HISTORY_SIZE == 100
ADAPTIVE_THRESHOLD == 50
MIN_FPS == 100
INITIAL_FPS == 500
MAX_RETRIES == 3
FIELDS_PER_BOID == 4
BYTES_PER_F32 == 4
FpsScale == 1000

Max(a, b) == IF a >= b THEN a ELSE b
Abs(a) == IF a >= 0 THEN a ELSE 0 - a

\* ------------------------------------------------------------- Boid layouts
Boid(x, y, vx, vy, species) ==
  [x |-> x, y |-> y, vx |-> vx, vy |-> vy, species |-> species]

\* the random initial entities BoidsSimulation::new may draw
SeedBoids == {Boid(0, 1, 1, 2, 0), Boid(1, 0, 2, 1, 1)}

Columns == {"x", "y", "vx", "vy", "species"}
ColumnOrder == <<"x", "y", "vx", "vy", "species">>

\* HostBuffers::sync_scalars_from_boids: one array per field
ScalarsFromBoids(boids) ==
  [c \in Columns |-> [i \in 1..Len(boids) |-> boids[i][c]]]

\* HostBuffers::rebuild_boids_from_scalars: one record per entity
BoidsFromScalars(boids, sc) ==
  [i \in 1..Len(boids) |->
     Boid(sc.x[i], sc.y[i], sc.vx[i], sc.vy[i], sc.species[i])]

\* the first k columns of dst replaced by those of src, in copy order
CopyColumns(dst, src, k) ==
  [c \in Columns |->
     IF \E j \in 1..k : ColumnOrder[j] = c THEN src[c] ELSE dst[c]]

\* one entity advanced by one step: position update and wrap-around
AdvanceBoid(b) ==
  [b EXCEPT !.x = (b.x + b.vx) % Wrap, !.y = (b.y + b.vy) % Wrap]

\* the same update on the columnar layout, entity i
AdvanceColumns(sc, i) ==
  [sc EXCEPT !.x[i] = (sc.x[i] + sc.vx[i]) % Wrap,
             !.y[i] = (sc.y[i] + sc.vy[i]) % Wrap]

\* the values one whole step produces from a logical state
AdvanceAll(boids) == [i \in 1..Len(boids) |-> AdvanceBoid(boids[i])]

RECURSIVE Iterate(_, _)
Iterate(boids, k) == IF k = 0 THEN boids ELSE Iterate(AdvanceAll(boids), k - 1)

\* a flattening that drops the last field of every entity
RECURSIVE FlattenShort(_)
FlattenShort(boids) ==
  IF boids = <<>> THEN <<>>
  ELSE <<Head(boids).x, Head(boids).y, Head(boids).vx>>
         \o FlattenShort(Tail(boids))

\* get_boids: x, y, vx, vy of every entity, in entity order
RECURSIVE Flatten(_)
Flatten(boids) ==
  IF boids = <<>> THEN <<>>
  ELSE <<Head(boids).x, Head(boids).y, Head(boids).vx, Head(boids).vy>>
         \o Flatten(Tail(boids))

\* ---------------------------------------------------------------- the Model
\* BoidsSimulation: boids is the interleaved device buffer, d the columnar
\* device buffers (present only when the kernel was found at construction),
\* host_boids / host_sc the HostBuffers staging arrays.
NoColumns == [c \in Columns |-> <<>>]

NewSim(seed, kernel) ==
  [num_boids |-> Len(seed),
   boids |-> seed,
   has_ptx |-> kernel,
   has_soa |-> kernel,
   d |-> IF kernel THEN ScalarsFromBoids(seed) ELSE NoColumns,
   host_boids |-> seed,
   host_sc |-> ScalarsFromBoids(seed),
   soa_dirty |-> ~kernel,
   aos_dirty |-> FALSE,
   last_used_cuda |-> FALSE]

\* the point at which a device operation of one call fails (k: the number
\* of column copies done before the failing one)
NoFail == [at |-> "none", k |-> 0]
FailAt(at, k) == [at |-> at, k |-> k]
FailPoints ==
  {FailAt("d2h", k) : k \in 0..4} \cup {FailAt("h2d", k) : k \in 0..4}
    \cup {FailAt("h2d_boids", 0), FailAt("d2h_boids", 0), FailAt("kernel", 0)}

Ok(s) == [ok |-> TRUE, sim |-> s]
Err(s) == [ok |-> FALSE, sim |-> s]

UsesKernel(s) == s.has_ptx /\ s.has_soa

\* sync_soa_from_aos: interleaved device buffer -> host -> columnar buffers
SyncSoaFromAos(s, f) ==
  IF ~s.has_soa THEN Ok([s EXCEPT !.soa_dirty = FALSE])
  ELSE IF f.at = "d2h_boids" THEN Err(s)
  ELSE LET staged == [s EXCEPT !.host_boids = s.boids,
                               !.host_sc = ScalarsFromBoids(s.boids)]
       IN IF f.at = "h2d"
          THEN Err([staged EXCEPT !.d = CopyColumns(s.d, staged.host_sc, f.k)])
          ELSE Ok([staged EXCEPT !.d = staged.host_sc, !.soa_dirty = FALSE])

\* a synchronisation that marks the layout it copied from stale
SyncAosFromSoaFlips(s, f) ==
  IF ~s.has_soa THEN Ok([s EXCEPT !.aos_dirty = FALSE])
  ELSE IF f.at = "d2h"
  THEN Err([s EXCEPT !.host_sc = CopyColumns(s.host_sc, s.d, f.k)])
  ELSE LET rebuilt == [s EXCEPT !.host_sc = s.d,
                                !.host_boids = BoidsFromScalars(s.host_boids, s.d)]
       IN IF f.at = "h2d_boids" THEN Err(rebuilt)
          ELSE Ok([rebuilt EXCEPT !.boids = rebuilt.host_boids,
                                  !.aos_dirty = FALSE, !.soa_dirty = TRUE])

\* sync_aos_from_soa: columnar buffers -> host -> interleaved device buffer
SyncAosFromSoa(s, f) ==
  IF ~s.has_soa THEN Ok([s EXCEPT !.aos_dirty = FALSE])
  ELSE IF f.at = "d2h"
  THEN Err([s EXCEPT !.host_sc = CopyColumns(s.host_sc, s.d, f.k)])
  ELSE LET rebuilt == [s EXCEPT !.host_sc = s.d,
                                !.host_boids = BoidsFromScalars(s.host_boids, s.d)]
       IN IF f.at = "h2d_boids" THEN Err(rebuilt)
          ELSE Ok([rebuilt EXCEPT !.boids = rebuilt.host_boids,
                                  !.aos_dirty = FALSE])

\* a read path that trusts the interleaved buffer whatever the flag says
EnsureAosCurrentSkips(s, f) == Ok(s)

\* ensure_aos_current
EnsureAosCurrent(s, f) == IF s.aos_dirty THEN SyncAosFromSoa(s, f) ELSE Ok(s)

\* get_boids: the flattened interleaved state, or the error
GetBoids(s, f) ==
  LET r == EnsureAosCurrent(s, f)
  IN IF ~r.ok THEN [ok |-> FALSE, sim |-> r.sim, value |-> <<>>]
     ELSE IF f.at = "d2h_boids" THEN [ok |-> FALSE, sim |-> r.sim, value |-> <<>>]
     ELSE [ok |-> TRUE,
           sim |-> [r.sim EXCEPT !.host_boids = r.sim.boids],
           value |-> Flatten(r.sim.boids)]

\* a step that records the kernel path before the launch is known to work
StepPrepareMarksEarly(s, f) ==
  IF UsesKernel(s)
  THEN LET r == IF s.soa_dirty THEN SyncSoaFromAos(s, f) ELSE Ok(s)
       IN IF ~r.ok THEN r
          ELSE IF f.at = "kernel"
          THEN Err([r.sim EXCEPT !.last_used_cuda = TRUE])
          ELSE r
  ELSE LET r == EnsureAosCurrent(s, f)
       IN IF ~r.ok THEN r
          ELSE IF f.at = "d2h_boids" THEN Err(r.sim)
          ELSE Ok([r.sim EXCEPT !.host_boids = r.sim.boids])

\* step, up to the first entity: the synchronisation of the layout the path
\* works on and, on the kernel path, module load, launch and synchronize (a
\* kernel that fails to launch or to synchronize is taken not to have run)
StepPrepare(s, f) ==
  IF UsesKernel(s)
  THEN LET r == IF s.soa_dirty THEN SyncSoaFromAos(s, f) ELSE Ok(s)
       IN IF ~r.ok THEN r
          ELSE IF f.at = "kernel" THEN Err(r.sim) ELSE r
  ELSE LET r == EnsureAosCurrent(s, f)
       IN IF ~r.ok THEN r
          ELSE IF f.at = "d2h_boids" THEN Err(r.sim)
          ELSE Ok([r.sim EXCEPT !.host_boids = r.sim.boids])

\* step, entity i: in place in the columnar device buffers (kernel thread i)
\* or in the host staging array (iteration i of the CPU loop)
StepEntity(s, i) ==
  IF UsesKernel(s)
  THEN [s EXCEPT !.d = AdvanceColumns(s.d, i)]
  ELSE [s EXCEPT !.host_boids[i] = AdvanceBoid(s.host_boids[i])]

\* a kernel commit that marks both layouts stale
StepCommitMarksBoth(s, f) ==
  IF UsesKernel(s)
  THEN Ok([s EXCEPT !.aos_dirty = TRUE, !.last_used_cuda = TRUE,
                    !.soa_dirty = TRUE])
  ELSE IF f.at = "h2d_boids" THEN Err(s)
  ELSE Ok([s EXCEPT !.boids = s.host_boids, !.last_used_cuda = FALSE,
                    !.soa_dirty = TRUE, !.aos_dirty = FALSE])

\* a commit that forgets to mark the interleaved layout stale
StepCommitStale(s, f) ==
  IF UsesKernel(s)
  THEN Ok([s EXCEPT !.last_used_cuda = TRUE, !.soa_dirty = FALSE])
  ELSE IF f.at = "h2d_boids" THEN Err(s)
  ELSE Ok([s EXCEPT !.boids = s.host_boids, !.last_used_cuda = FALSE,
                    !.soa_dirty = TRUE, !.aos_dirty = FALSE])

\* step, after the last entity: the flags, and the copy back on the CPU path
StepCommit(s, f) ==
  IF UsesKernel(s)
  THEN Ok([s EXCEPT !.aos_dirty = TRUE, !.last_used_cuda = TRUE,
                    !.soa_dirty = FALSE])
  ELSE IF f.at = "h2d_boids" THEN Err(s)
  ELSE Ok([s EXCEPT !.boids = s.host_boids, !.last_used_cuda = FALSE,
                    !.soa_dirty = TRUE, !.aos_dirty = FALSE])

\* ----------------------------------------------------- adaptive target rate
\* a reduction by the inverse factor, and one without the floor
ReducedFpsRaises(fps) == Max((fps * 10) \div 9, MIN_FPS * FpsScale)
ReducedFpsNoFloor(fps) == (fps * 9) \div 10

\* (*fps_guard * 0.9).max(MIN_FPS), in fixed point
ReducedFps(fps) == Max((fps * 9) \div 10, MIN_FPS * FpsScale)

\* (new_fps - *fps_guard).abs() > 1.0
FpsChanged(new, fps) == Abs(new - fps) > FpsScale

\* --------------------------------------------------------------- f32 values
\* an f32 by its binary32 fields: sign bit, biased exponent, fraction
F32(s, e, m) == [s |-> s, e |-> e, m |-> m]

HIDDEN_BIT == 8388608
EXP_SPECIAL == 255
GUARD == 8

F32Zero == F32(0, 0, 0)
F32One == F32(0, 127, 0)
F32NaN == F32(0, EXP_SPECIAL, 4194304)
F32Inf(s) == F32(s, EXP_SPECIAL, 0)

IsNaN(f) == f.e = EXP_SPECIAL /\ f.m # 0
IsInf(f) == f.e = EXP_SPECIAL /\ f.m = 0

\* significand with the hidden bit, and the exponent it is scaled by
Sig(f) == IF f.e = 0 THEN f.m ELSE f.m + HIDDEN_BIT
Exp(f) == IF f.e = 0 THEN 1 ELSE f.e

\* x >> d with the bits shifted out or-ed into the lowest bit kept
ShiftRightSticky(x, d) ==
  IF d >= 28 THEN (IF x = 0 THEN 0 ELSE 1)
  ELSE LET q == x \div (2 ^ d)
           r == x % (2 ^ d)
       IN IF r # 0 /\ q % 2 = 0 THEN q + 1 ELSE q

\* bring a significand carrying three extra bits back into [2^26, 2^27)
RECURSIVE Normalize(_, _)
Normalize(r, e) ==
  IF r >= 2 * GUARD * HIDDEN_BIT THEN Normalize(ShiftRightSticky(r, 1), e + 1)
  ELSE IF r > 0 /\ r < GUARD * HIDDEN_BIT /\ e > 1 THEN Normalize(r * 2, e - 1)
  ELSE <<r, e>>

\* round to nearest, ties to even, and pack
RoundPack(s, n) ==
  LET q0 == n[1] \div GUARD
      r == n[1] % GUARD
      q1 == IF r > 4 \/ (r = 4 /\ q0 % 2 = 1) THEN q0 + 1 ELSE q0
      e == IF q1 = 2 * HIDDEN_BIT THEN n[2] + 1 ELSE n[2]
      q == IF q1 = 2 * HIDDEN_BIT THEN HIDDEN_BIT ELSE q1
  IN IF e >= EXP_SPECIAL THEN F32Inf(s)
     ELSE IF q < HIDDEN_BIT THEN F32(s, 0, q)
     ELSE F32(s, e, q - HIDDEN_BIT)

\* a + b on f32
FAdd(a, b) ==
  IF IsNaN(a) \/ IsNaN(b) THEN F32NaN
  ELSE IF IsInf(a) THEN (IF IsInf(b) /\ a.s # b.s THEN F32NaN ELSE a)
  ELSE IF IsInf(b) THEN b
  ELSE LET aBig == Exp(a) > Exp(b) \/ (Exp(a) = Exp(b) /\ Sig(a) >= Sig(b))
           hi == IF aBig THEN a ELSE b
           lo == IF aBig THEN b ELSE a
           h == Sig(hi) * GUARD
           l == ShiftRightSticky(Sig(lo) * GUARD, Exp(hi) - Exp(lo))
       IN IF hi.s = lo.s THEN RoundPack(hi.s, Normalize(h + l, Exp(hi)))
          ELSE IF h = l THEN F32Zero
          ELSE RoundPack(hi.s, Normalize(h - l, Exp(hi)))

FNeg(f) == [f EXCEPT !.s = 1 - f.s]

\* a - b on f32
FSub(a, b) == FAdd(a, FNeg(b))

\* |f| < 0.0001
TOLERANCE == F32(0, 113, 5355287)
BelowTolerance(f) ==
  f.e < TOLERANCE.e \/ (f.e = TOLERANCE.e /\ f.m < TOLERANCE.m)

\* the f32 a field value of the Model stands for
RECURSIVE F32OfInt(_)
F32OfInt(n) == IF n = 0 THEN F32Zero ELSE FAdd(F32OfInt(n - 1), F32One)

\* ------------------------------------------------------------ wire format
\* f32::to_be_bytes: the same four bytes, most significant first
ToBeBytes(f) ==
  <<(f.e \div 2) + f.s * 128, (f.m \div 65536) + (f.e % 2) * 128,
    (f.m \div 256) % 256, f.m % 256>>

\* f32::to_le_bytes
ToLeBytes(f) ==
  <<f.m % 256, (f.m \div 256) % 256, (f.m \div 65536) + (f.e % 2) * 128,
    (f.e \div 2) + f.s * 128>>

\* f32::from_le_bytes
FromLeBytes(b) ==
  F32(b[4] \div 128, (b[4] % 128) * 2 + (b[3] \div 128),
      (b[3] % 128) * 65536 + b[2] * 256 + b[1])

\* the first n bytes of an unsigned integer, least significant first
RECURSIVE LeBytes(_, _)
LeBytes(v, n) ==
  IF n = 0 THEN <<>> ELSE <<v % 256>> \o LeBytes(v \div 256, n - 1)

Rest(s, n) == SubSeq(s, n + 1, Len(s))

\* a packing that leaves out the last field of every entity
RECURSIVE PackShort(_)
PackShort(state) ==
  IF Len(state) < 4 THEN <<>>
  ELSE ToLeBytes(state[1]) \o ToLeBytes(state[2]) \o ToLeBytes(state[3])
         \o PackShort(Rest(state, 4))

\* BroadcastState::encode, the packing loop: whole chunks of four values,
\* each value as its four little-endian bytes
RECURSIVE Pack(_)
Pack(state) ==
  IF Len(state) < 4 THEN <<>>
  ELSE ToLeBytes(state[1]) \o ToLeBytes(state[2]) \o ToLeBytes(state[3])
         \o ToLeBytes(state[4]) \o Pack(Rest(state, 4))

\* BroadcastState::encode, from what get_state() and num_boids() returned
Encoded(state, count, ts) ==
  [timestamp |-> ts, num_boids |-> count, data |-> Pack(state), made |-> TRUE]

\* BroadcastState::decode, the loop: whole chunks of four bytes
RECURSIVE DecodeWords(_)
DecodeWords(data) ==
  IF Len(data) < 4 THEN <<>>
  ELSE <<FromLeBytes(SubSeq(data, 1, 4))>> \o DecodeWords(Rest(data, 4))

\* BroadcastState::decode: Ok(result) on every input
Decode(data) ==
  [input |-> data, ok |-> TRUE, value |-> DecodeWords(data), called |-> TRUE]

\* a delta taken the wrong way round
DeltaFieldSwapped(c, p) == FSub(p, c)

\* let delta = curr_val - prev_val
DeltaField(c, p) == FSub(c, p)

\* a delta payload that leaves out the words of unchanged fields
RECURSIVE DeltaWordsSparse(_, _)
DeltaWordsSparse(c, p) ==
  IF Len(c) < 4 \/ Len(p) < 4 THEN <<>>
  ELSE LET d == DeltaField(FromLeBytes(SubSeq(c, 1, 4)),
                           FromLeBytes(SubSeq(p, 1, 4)))
       IN (IF d = F32Zero THEN <<>> ELSE ToLeBytes(d))
            \o DeltaWordsSparse(Rest(c, 4), Rest(p, 4))

\* encode_delta, the loop over the zipped four-byte chunks
RECURSIVE DeltaWords(_, _)
DeltaWords(c, p) ==
  IF Len(c) < 4 \/ Len(p) < 4 THEN <<>>
  ELSE ToLeBytes(DeltaField(FromLeBytes(SubSeq(c, 1, 4)),
                            FromLeBytes(SubSeq(p, 1, 4))))
         \o DeltaWords(Rest(c, 4), Rest(p, 4))

\* u64::saturating_sub
SaturatingSub(a, b) == IF a >= b THEN a - b ELSE 0

\* an encode_delta without the full-state fallback
EncodeDeltaNoFallback(current, previous) ==
  [ok |-> TRUE,
   base_timestamp |-> previous.timestamp,
   delta_timestamp |-> SaturatingSub(current.timestamp, previous.timestamp),
   num_boids |-> current.num_boids,
   deltas |-> DeltaWords(current.data, previous.data),
   made |-> TRUE]

\* DeltaState::encode_delta
EncodeDelta(current, previous) ==
  IF current.num_boids # previous.num_boids
  THEN [ok |-> TRUE,
        base_timestamp |-> current.timestamp,
        delta_timestamp |-> 0,
        num_boids |-> current.num_boids,
        deltas |-> current.data,
        made |-> TRUE]
  ELSE [ok |-> TRUE,
        base_timestamp |-> previous.timestamp,
        delta_timestamp |-> SaturatingSub(current.timestamp, previous.timestamp),
        num_boids |-> current.num_boids,
        deltas |-> DeltaWords(current.data, previous.data),
        made |-> TRUE]

\* a frame without the entity count
FrameNoCount(state) == LeBytes(state.timestamp, 8) \o state.data

\* handle_websocket, send branch: timestamp, num_boids as u32, data
Frame(state) ==
  LeBytes(state.timestamp, 8) \o LeBytes(state.num_boids, 4) \o state.data

\* an unsigned integer from its bytes, least significant first
RECURSIVE FromLe(_)
FromLe(b) == IF b = <<>> THEN 0 ELSE b[1] + 256 * FromLe(Tail(b))

\* ------------------------------------------------------------------- state
VARIABLES
  sim,                \* the BoidsSimulation behind Arc<Mutex<..>>
  simLock,            \* owner of the simulation mutex (NoOwner when free)
  running,            \* Arc<Mutex<bool>>
  target_fps,         \* Arc<Mutex<f32>>, fixed point
  frame_count,        \* Arc<Mutex<u64>>
  frame_times,        \* Arc<Mutex<Vec<Duration>>>: over-budget or not, oldest first
  consecutive_delays, \* Arc<Mutex<u32>>
  pc,                 \* position of each spawned loop thread
  over,               \* per thread: elapsed > target_duration in this iteration
  stepIdx,            \* per thread: entities done by the step in progress
  spawned,            \* threads spawned by start() so far
  rpc,                \* position of the get_state() caller
  retries,            \* get_state: retries left
  readResult,         \* what the last get_state() returned
  countSeen,          \* what the last num_boids() returned
  startResult,        \* what the last start() returned
  seed,               \* history: the state BoidsSimulation::new produced
  produced,           \* history: the values the last successful step produced
  lastStep,           \* history, per thread: result of its last step
  exitWhy,            \* history, per thread: why the loop thread ended
  startsSinceStop,    \* history: start() calls since construction or stop()
  spawnsSinceStop,    \* history: threads spawned since construction or stop()
  stops,              \* history: stop() calls
  stopPending,        \* history: stop() returned and start() not called since
  stepsAfterStop,     \* history, per thread: steps returned while stopPending
  callsLeft,          \* environment: API calls the clients still make
  slowLeft,           \* environment: over-budget iterations still to come
  fastLeft,           \* environment: within-budget iterations still to come
  failLeft,           \* environment: device failures still to come
  ctxCreated,         \* get_state: Context::create_and_push gave a context
  epc,                \* position of the BroadcastState::encode caller
  snapshot,           \* what the last BroadcastState::encode returned
  frame,              \* the last data frame built for a subscriber
  floatsA,            \* codec input: the float sequence of the current snapshot
  floatsB,            \* codec input: the float sequence of the previous snapshot
  curr,               \* codec: the current BroadcastState
  prev,               \* codec: the previous BroadcastState
  delta,              \* codec: what the last encode_delta returned
  decoded,            \* codec: the last decode input and what it returned
  chanTail,           \* broadcast channel: values stored so far (next write position)
  chanClosed,         \* broadcast channel: every Sender has been dropped
  conn,               \* per connection: its Receiver and its send task's locals
  net,                \* environment: what the network and the clock still do
  mx                  \* the engine's mutexes one lock() at a time: owners,
                      \* the statements each thread still has to run, the flag

engineVars == <<running, target_fps, frame_count, frame_times, consecutive_delays>>
threadVars == <<pc, over, stepIdx, spawned>>
readerVars == <<rpc, retries, readResult, countSeen>>
historyVars == <<seed, produced, lastStep, exitWhy, startsSinceStop,
                 spawnsSinceStop, stops, stopPending, stepsAfterStop>>
envVars == <<callsLeft, slowLeft, fastLeft, failLeft>>
encVars == <<epc, snapshot, frame>>
codecVars == <<floatsA, floatsB, curr, prev, delta, decoded>>
streamVars == <<chanTail, chanClosed, conn, net>>
vars == <<sim, simLock, engineVars, threadVars, readerVars, startResult,
          historyVars, envVars, ctxCreated, encVars, codecVars, streamVars,
          mx>>

Threads == 1..MaxThreads
NoOwner == 0
Reader == MaxThreads + 1
NoResult == [ok |-> FALSE, value |-> <<>>, called |-> FALSE]

\* Mutex::lock on the simulation succeeds only while no one holds it
MutexFreeBroken(owner) == TRUE
MutexFree(owner) == owner = NoOwner

\* no encode has returned, no delta was built, nothing was decoded
NoSnapshot == [timestamp |-> 0, num_boids |-> 0, data |-> <<>>, made |-> FALSE]
NoDelta == [ok |-> FALSE, base_timestamp |-> 0, delta_timestamp |-> 0,
            num_boids |-> 0, deltas |-> <<>>, made |-> FALSE]
NoFrame == [bytes |-> <<>>, state |-> NoSnapshot, sent |-> FALSE]
NoDecode == [input |-> <<>>, ok |-> FALSE, value |-> <<>>, called |-> FALSE]

\* ------------------------------------------- the engine's mutexes, by lock()
\* the seven Arc<Mutex<..>> fields of SimulationEngine
Mutexes ==
  {"running", "target_fps", "simulation", "frame_count", "last_update",
   "frame_times", "consecutive_delays"}

LoopProcs == 1..LockLoops
Callers == (LockLoops + 1)..(LockLoops + LockCallers)
Procs == LoopProcs \cup Callers

\* the statements that matter to the mutexes: m.lock().unwrap(), the drop of
\* a guard, and the tests and writes of the running flag
Op(kind) == <<kind, "">>
Lock(m) == <<"lock", m>>
Unlock(m) == <<"unlock", m>>
\* { let guard = m.lock().unwrap(); .. }
Scoped(m) == <<Lock(m), Unlock(m)>>

\* a start() that drops the running guard between its test and its write
StartProgramRechecks ==
  <<Lock("running"), Op("return_if_running"), Unlock("running"),
    Lock("running"), Op("set_running")>>
    \o Scoped("target_fps") \o <<Op("spawn"), Unlock("running")>>

\* start(): the running guard lives to the end of the function
StartProgram ==
  <<Lock("running"), Op("return_if_running"), Op("set_running")>>
    \o Scoped("target_fps") \o <<Op("spawn"), Unlock("running")>>

\* stop()
StopProgram == <<Lock("running"), Op("clear_running"), Unlock("running")>>

\* get_state() and num_boids() (simulation), is_running(), get_frame_count()
\* and get_last_update(): one guard each
AccessorPrograms ==
  {Scoped(m) : m \in {"simulation", "running", "frame_count", "last_update"}}

Handlers == {StartProgram, StopProgram} \cup AccessorPrograms

\* the adaptive block of one iteration: within budget the delay counter alone;
\* over budget the counter's guard is held to the end of the branch, around
\* the rate (when the threshold is reached) and around the frame count, which
\* is held around the history when the count is a multiple of 1000
AdaptivePrograms ==
  {Scoped("consecutive_delays")} \cup
  {<<Lock("consecutive_delays")>> \o reduce \o log
     \o <<Unlock("consecutive_delays")>> :
     reduce \in {<<>>, Scoped("target_fps")},
     log \in {Scoped("frame_count"),
              <<Lock("frame_count")>> \o Scoped("frame_times")
                \o <<Unlock("frame_count")>>}}

\* a loop that tests the running flag with the rate's guard in its hands
LoopProgramHoldsRate ==
  <<Lock("target_fps"), Lock("running"), Op("break_unless_running"),
    Unlock("running"), Unlock("target_fps")>>
    \o Scoped("simulation") \o Scoped("frame_count") \o Scoped("last_update")
    \o Scoped("frame_times") \o <<Op("adapt")>>

\* one iteration of the loop thread up to its adaptive block
LoopProgram ==
  <<Lock("running"), Op("break_unless_running"), Unlock("running")>>
    \o Scoped("target_fps") \o Scoped("simulation") \o Scoped("frame_count")
    \o Scoped("last_update") \o Scoped("frame_times") \o <<Op("adapt")>>

\* every mutex free, no thread inside the engine, the flag cleared
LocksIdle ==
  [owner |-> [m \in Mutexes |-> 0],
   todo |-> [p \in Procs |-> <<>>],
   running |-> FALSE]

\* SimulationEngine::new over a freshly constructed Model, and an environment
EngineInit(counts, calls, slow, fast, fails) ==
  /\ \E n \in counts : \E s \in [1..n -> SeedBoids] : \E kernel \in BOOLEAN :
       /\ sim = NewSim(s, kernel)
       /\ seed = s
       /\ produced = s
  /\ simLock = NoOwner
  /\ running = FALSE
  /\ target_fps = INITIAL_FPS * FpsScale
  /\ frame_count = 0
  /\ frame_times = <<>>
  /\ consecutive_delays = 0
  /\ pc = [t \in Threads |-> "none"]
  /\ over = [t \in Threads |-> FALSE]
  /\ stepIdx = [t \in Threads |-> 0]
  /\ spawned = 0
  /\ rpc = "idle"
  /\ retries = 0
  /\ readResult = NoResult
  /\ countSeen = 0
  /\ startResult = "none"
  /\ lastStep = [t \in Threads |-> "none"]
  /\ exitWhy = [t \in Threads |-> "none"]
  /\ startsSinceStop = 0
  /\ spawnsSinceStop = 0
  /\ stops = 0
  /\ stopPending = FALSE
  /\ stepsAfterStop = [t \in Threads |-> 0]
  /\ callsLeft = calls
  /\ slowLeft = slow
  /\ fastLeft = fast
  /\ failLeft = fails
  /\ ctxCreated = TRUE
  /\ mx = LocksIdle
  /\ epc = "idle"
  /\ snapshot = NoSnapshot
  /\ frame = NoFrame

\* the codec at rest: no input, no result
CodecIdle ==
  /\ floatsA = <<>>
  /\ floatsB = <<>>
  /\ curr = NoSnapshot
  /\ prev = NoSnapshot
  /\ delta = NoDelta
  /\ decoded = NoDecode

\* no connection has been accepted, nothing was published, and the network
\* does nothing
Conns == 1..MaxConns
NoMessage == [kind |-> "none", payload |-> <<>>]
NoConn ==
  [pc |-> "none", next |-> 0, consecutive_empty |-> 0, elapsed_secs |-> 0,
   emptyRun |-> 0, out |-> <<>>, why |-> "none", got |-> NoMessage]
Quiet ==
  [subs |-> 0, pubs |-> 0, encFails |-> 0, ticks |-> 0, empties |-> 0,
   secs |-> 0, sendFails |-> 0, inbound |-> 0, closes |-> 0]

StreamWith(budget) ==
  /\ chanTail = 0
  /\ chanClosed = FALSE
  /\ conn = [c \in Conns |-> NoConn]
  /\ net = budget

StreamIdle == StreamWith(Quiet)

InitWith(counts, calls, slow, fast, fails) ==
  EngineInit(counts, calls, slow, fast, fails) /\ CodecIdle /\ StreamIdle

\* an engine whose steps all finish within budget, under clients that make
\* MaxCalls calls and a device that fails MaxFail times
Init == InitWith(1..MaxBoids, MaxCalls, 0, MaxFast, MaxFail)

\* the failure the environment injects into one Model call
FailChoices == IF failLeft > 0 THEN FailPoints \cup {NoFail} ELSE {NoFail}
FailSpent(ok) == IF ok THEN failLeft ELSE failLeft - 1

\* ---------------------------------------------------------------- start()
StartAlways == FALSE
AlreadyRunning == running

Start ==
  /\ callsLeft > 0
  /\ AlreadyRunning \/ spawned < MaxThreads
  /\ callsLeft' = callsLeft - 1
  /\ startResult' = "ok"
  /\ startsSinceStop' = startsSinceStop + 1
  /\ stopPending' = FALSE
  /\ IF AlreadyRunning
     THEN UNCHANGED <<running, pc, spawned, spawnsSinceStop>>
     ELSE /\ running' = TRUE
          /\ spawned' = spawned + 1
          /\ spawnsSinceStop' = spawnsSinceStop + 1
          /\ pc' = [pc EXCEPT ![spawned + 1] = "init"]
  /\ UNCHANGED <<sim, simLock, target_fps, frame_count, frame_times,
                 consecutive_delays, over, stepIdx, readerVars, seed, produced,
                 lastStep, exitWhy, stops, stepsAfterStop, slowLeft, fastLeft,
                 failLeft>>
  /\ UNCHANGED <<ctxCreated, encVars, codecVars, streamVars, mx>>

\* ----------------------------------------------------------------- stop()
Stop ==
  /\ callsLeft > 0
  /\ callsLeft' = callsLeft - 1
  /\ running' = FALSE
  /\ stops' = stops + 1
  /\ startsSinceStop' = 0
  /\ spawnsSinceStop' = 0
  /\ stopPending' = TRUE
  /\ stepsAfterStop' = IF stopPending THEN stepsAfterStop
                       ELSE [t \in Threads |-> 0]
  /\ UNCHANGED <<sim, simLock, target_fps, frame_count, frame_times,
                 consecutive_delays, threadVars, readerVars, startResult, seed,
                 produced, lastStep, exitWhy, slowLeft, fastLeft, failLeft>>
  /\ UNCHANGED <<ctxCreated, encVars, codecVars, streamVars, mx>>

\* ------------------------------------------------------- the loop thread
\* thread start: init_cuda_in_thread, Device::get_device, create_and_push;
\* any of them failing ends the thread before its loop
LoopInit(t) ==
  /\ pc[t] = "init"
  /\ \E ok \in (IF failLeft > 0 THEN BOOLEAN ELSE {TRUE}) :
       /\ pc' = [pc EXCEPT ![t] = IF ok THEN "top" ELSE "exited"]
       /\ exitWhy' = [exitWhy EXCEPT ![t] = IF ok THEN @ ELSE "init_failed"]
       /\ failLeft' = FailSpent(ok)
  /\ UNCHANGED <<sim, simLock, engineVars, over, stepIdx, spawned, readerVars,
                 startResult, seed, produced, lastStep, startsSinceStop,
                 spawnsSinceStop, stops, stopPending, stepsAfterStop,
                 callsLeft, slowLeft, fastLeft>>
  /\ UNCHANGED <<ctxCreated, encVars, codecVars, streamVars, mx>>

\* what the running check at the top of an iteration reads
ShouldStopNever == FALSE
ShouldStop == ~running

\* an environment whose within-budget iterations never run out
Unlimited == 0 - 1
Spend(budget) == IF budget = Unlimited THEN budget ELSE budget - 1

\* the outcomes the environment can still give to elapsed > target_duration
OverChoices ==
  (IF slowLeft > 0 THEN {TRUE} ELSE {}) \cup (IF fastLeft # 0 THEN {FALSE} ELSE {})

\* loop top: the running check, then the read of the target rate
LoopTop(t) ==
  /\ pc[t] = "top"
  /\ IF ShouldStop
     THEN /\ pc' = [pc EXCEPT ![t] = "exited"]
          /\ exitWhy' = [exitWhy EXCEPT ![t] = "stopped"]
          /\ UNCHANGED <<over, slowLeft, fastLeft>>
     ELSE \E o \in OverChoices :
            /\ pc' = [pc EXCEPT ![t] = "lock"]
            /\ over' = [over EXCEPT ![t] = o]
            /\ slowLeft' = IF o THEN slowLeft - 1 ELSE slowLeft
            /\ fastLeft' = IF o THEN fastLeft ELSE Spend(fastLeft)
            /\ UNCHANGED exitWhy
  /\ UNCHANGED <<sim, simLock, engineVars, stepIdx, spawned, readerVars,
                 startResult, seed, produced, lastStep, startsSinceStop,
                 spawnsSinceStop, stops, stopPending, stepsAfterStop,
                 callsLeft, failLeft>>
  /\ UNCHANGED <<ctxCreated, encVars, codecVars, streamVars, mx>>

\* a step that has returned: the lock is released and the loop goes on to
\* its frame tracking whatever the result
StepReturnBreaks(t, ok) ==
  /\ simLock' = NoOwner
  /\ lastStep' = [lastStep EXCEPT ![t] = IF ok THEN "ok" ELSE "err"]
  /\ pc' = [pc EXCEPT ![t] = IF ok THEN "track" ELSE "exited"]
  /\ exitWhy' = [exitWhy EXCEPT ![t] = IF ok THEN @ ELSE "step_error"]
  /\ stepsAfterStop' = [stepsAfterStop EXCEPT
                          ![t] = IF stopPending THEN @ + 1 ELSE @]
  /\ failLeft' = FailSpent(ok)

\* a step that returns with the simulation mutex still held
StepReturnKeepsLock(t, ok) ==
  /\ simLock' = simLock
  /\ lastStep' = [lastStep EXCEPT ![t] = IF ok THEN "ok" ELSE "err"]
  /\ pc' = [pc EXCEPT ![t] = "track"]
  /\ UNCHANGED exitWhy
  /\ stepsAfterStop' = [stepsAfterStop EXCEPT
                          ![t] = IF stopPending THEN @ + 1 ELSE @]
  /\ failLeft' = FailSpent(ok)

StepReturn(t, ok) ==
  /\ simLock' = NoOwner
  /\ lastStep' = [lastStep EXCEPT ![t] = IF ok THEN "ok" ELSE "err"]
  /\ pc' = [pc EXCEPT ![t] = "track"]
  /\ UNCHANGED exitWhy
  /\ stepsAfterStop' = [stepsAfterStop EXCEPT
                          ![t] = IF stopPending THEN @ + 1 ELSE @]
  /\ failLeft' = FailSpent(ok)

\* simulation.lock() and the start of sim.step(dt)
StepBegin(t) ==
  /\ pc[t] = "lock"
  /\ MutexFree(simLock)
  /\ \E f \in FailChoices :
       LET r == StepPrepare(sim, f)
       IN /\ sim' = r.sim
          /\ IF r.ok
             THEN /\ simLock' = t
                  /\ pc' = [pc EXCEPT ![t] = "step"]
                  /\ stepIdx' = [stepIdx EXCEPT ![t] = 0]
                  /\ UNCHANGED <<lastStep, exitWhy, stepsAfterStop, failLeft>>
             ELSE /\ StepReturn(t, FALSE)
                  /\ UNCHANGED stepIdx
  /\ UNCHANGED <<engineVars, over, spawned, readerVars, startResult, seed,
                 produced, startsSinceStop, spawnsSinceStop, stops,
                 stopPending, callsLeft, slowLeft, fastLeft>>
  /\ UNCHANGED <<ctxCreated, encVars, codecVars, streamVars, mx>>

\* sim.step(dt), one entity
StepOne(t) ==
  /\ pc[t] = "step"
  /\ stepIdx[t] < sim.num_boids
  /\ sim' = StepEntity(sim, stepIdx[t] + 1)
  /\ stepIdx' = [stepIdx EXCEPT ![t] = @ + 1]
  /\ UNCHANGED <<simLock, engineVars, pc, over, spawned, readerVars,
                 startResult, historyVars, envVars>>
  /\ UNCHANGED <<ctxCreated, encVars, codecVars, streamVars, mx>>

\* the end of sim.step(dt) and the release of the lock
StepEnd(t) ==
  /\ pc[t] = "step"
  /\ stepIdx[t] = sim.num_boids
  /\ \E f \in FailChoices :
       LET r == StepCommit(sim, f)
       IN /\ sim' = r.sim
          /\ produced' = IF r.ok THEN AdvanceAll(produced) ELSE produced
          /\ StepReturn(t, r.ok)
  /\ UNCHANGED <<engineVars, over, stepIdx, spawned, readerVars, startResult,
                 seed, startsSinceStop, spawnsSinceStop, stops, stopPending,
                 callsLeft, slowLeft, fastLeft>>
  /\ UNCHANGED <<ctxCreated, encVars, codecVars, streamVars, mx>>

\* a history that, when full, gives up the newest entry instead of the oldest
PushFrameTimeDropsNewest(times, elapsed) ==
  LET pushed == Append(times, elapsed)
  IN IF Len(pushed) > FRAME_TIME_HISTORY_SIZE
     THEN SubSeq(pushed, 1, FRAME_TIME_HISTORY_SIZE)
     ELSE pushed

\* times.push(elapsed), evicting the oldest beyond the history size
PushFrameTime(times, elapsed) ==
  LET pushed == Append(times, elapsed)
  IN IF Len(pushed) > FRAME_TIME_HISTORY_SIZE THEN Tail(pushed) ELSE pushed

\* an adaptive timing that keeps the delay count over a step within budget
AdaptKeepsCount(fps, delays, isOver) ==
  IF isOver
  THEN LET d == delays + 1
           new == ReducedFps(fps)
       IN IF d >= ADAPTIVE_THRESHOLD /\ FpsChanged(new, fps)
          THEN <<new, 0>>
          ELSE <<fps, d>>
  ELSE <<fps, delays>>

\* the adaptive timing of one iteration: the new <<target rate, delay count>>
Adapt(fps, delays, isOver) ==
  IF isOver
  THEN LET d == delays + 1
           new == ReducedFps(fps)
       IN IF d >= ADAPTIVE_THRESHOLD /\ FpsChanged(new, fps)
          THEN <<new, 0>>
          ELSE <<fps, d>>
  ELSE <<fps, 0>>

\* frame tracking and adaptive timing, then the sleep for the remainder
\* *count += 1; in an unlimited run the u64 counter is followed up to MaxFrames
CountFrameStuck(count) == count

CountFrame(count) ==
  IF fastLeft = Unlimited /\ count >= MaxFrames THEN count ELSE count + 1

LoopTrack(t) ==
  /\ pc[t] = "track"
  /\ frame_count' = CountFrame(frame_count)
  /\ frame_times' = PushFrameTime(frame_times, over[t])
  /\ LET a == Adapt(target_fps, consecutive_delays, over[t])
     IN /\ target_fps' = a[1]
        /\ consecutive_delays' = a[2]
  /\ pc' = [pc EXCEPT ![t] = "top"]
  /\ UNCHANGED <<sim, simLock, running, over, stepIdx, spawned, readerVars,
                 startResult, historyVars, envVars>>
  /\ UNCHANGED <<ctxCreated, encVars, codecVars, streamVars, mx>>

ThreadNext(t) ==
  LoopInit(t) \/ LoopTop(t) \/ StepBegin(t) \/ StepOne(t) \/ StepEnd(t) \/ LoopTrack(t)

\* ------------------------------------------------------------ get_state()
\* CudaContext::ensure_context: Ok whether or not the context was created
EnsureContext(created) == "ok"

GetStateCall ==
  /\ rpc = "idle"
  /\ callsLeft > 0
  /\ callsLeft' = callsLeft - 1
  /\ rpc' = "ctx"
  /\ retries' = MAX_RETRIES
  /\ readResult' = NoResult
  /\ ctxCreated' = TRUE
  /\ UNCHANGED <<sim, simLock, engineVars, threadVars, countSeen, startResult,
                 historyVars, slowLeft, fastLeft, failLeft>>
  /\ UNCHANGED <<encVars, codecVars, streamVars, mx>>

\* one turn of the retry loop around ensure_context
GetStateContext ==
  /\ rpc = "ctx"
  /\ \E created \in (IF failLeft > 0 THEN BOOLEAN ELSE {TRUE}) :
       /\ ctxCreated' = created
       /\ failLeft' = FailSpent(created)
       /\ IF EnsureContext(created) = "ok"
          THEN /\ rpc' = "lock"
               /\ UNCHANGED <<retries, readResult>>
          ELSE /\ retries' = retries - 1
               /\ IF retries' = 0
                  THEN /\ rpc' = "idle"
                       /\ readResult' = [ok |-> FALSE, value |-> <<>>,
                                         called |-> TRUE]
                  ELSE UNCHANGED <<rpc, readResult>>
  /\ UNCHANGED <<sim, simLock, engineVars, threadVars, countSeen, startResult,
                 historyVars, callsLeft, slowLeft, fastLeft>>
  /\ UNCHANGED <<encVars, codecVars, streamVars, mx>>

\* self.simulation.lock()
GetStateLock ==
  /\ rpc = "lock"
  /\ MutexFree(simLock)
  /\ simLock' = Reader
  /\ rpc' = "boids_ctx"
  /\ UNCHANGED <<sim, engineVars, threadVars, retries, readResult, countSeen,
                 startResult, historyVars, envVars>>
  /\ UNCHANGED <<ctxCreated, encVars, codecVars, streamVars, mx>>

\* get_boids(), first statement: self.context.ensure_context()? with the
\* simulation mutex held; ensure_context creates and pushes a context on
\* every call and answers Ok either way, so the read always follows
GetBoidsContext ==
  /\ rpc = "boids_ctx"
  /\ \E created \in (IF failLeft > 0 THEN BOOLEAN ELSE {TRUE}) :
       /\ ctxCreated' = created
       /\ failLeft' = FailSpent(created)
       /\ IF EnsureContext(created) = "ok"
          THEN /\ rpc' = "read"
               /\ UNCHANGED <<simLock, readResult>>
          ELSE /\ rpc' = "idle"
               /\ simLock' = NoOwner
               /\ readResult' = [ok |-> FALSE, value |-> <<>>,
                                 called |-> TRUE]
  /\ UNCHANGED <<sim, engineVars, threadVars, retries, countSeen,
                 startResult, historyVars, callsLeft, slowLeft, fastLeft>>
  /\ UNCHANGED <<encVars, codecVars, streamVars, mx>>

\* the rest of sim.get_boids() under the lock, and the return
GetStateRead ==
  /\ rpc = "read"
  /\ \E f \in FailChoices :
       LET r == GetBoids(sim, f)
       IN /\ sim' = r.sim
          /\ readResult' = [ok |-> r.ok, value |-> r.value, called |-> TRUE]
          /\ failLeft' = FailSpent(r.ok)
  /\ simLock' = NoOwner
  /\ rpc' = "idle"
  /\ ctxCreated' = TRUE
  /\ UNCHANGED <<engineVars, threadVars, retries, countSeen, startResult,
                 historyVars, callsLeft, slowLeft, fastLeft>>
  /\ UNCHANGED <<encVars, codecVars, streamVars, mx>>

\* num_boids(): the count, read under the lock
NumBoids ==
  /\ callsLeft > 0
  /\ MutexFree(simLock)
  /\ callsLeft' = callsLeft - 1
  /\ countSeen' = sim.num_boids
  /\ UNCHANGED <<sim, simLock, engineVars, threadVars, rpc, retries,
                 readResult, startResult, historyVars, slowLeft, fastLeft,
                 failLeft>>
  /\ UNCHANGED <<ctxCreated, encVars, codecVars, streamVars, mx>>

ReaderNext ==
  GetStateContext \/ GetStateLock \/ GetBoidsContext \/ GetStateRead

Next ==
  \/ Start
  \/ Stop
  \/ GetStateCall
  \/ NumBoids
  \/ ReaderNext
  \/ \E t \in Threads : ThreadNext(t)

Spec == Init /\ [][Next]_vars

\* the scheduler runs every loop thread and every caller that can move
Fairness == /\ \A t \in Threads : WF_vars(ThreadNext(t))
            /\ WF_vars(ReaderNext)

\* the same engine over one entity, fairly scheduled
InitOne == InitWith({1}, MaxCalls, 0, MaxFast, MaxFail)

SpecFair == InitOne /\ [][Next]_vars /\ Fairness

\* an engine whose step stub is artificially slow: every iteration is over
\* budget, no device failure, one entity
InitRate == InitWith({1}, 2, RateSlow, 0, 0)

SpecRate == InitRate /\ [][Next]_vars

\* an engine whose iterations are over budget but for one, which may come
\* at any point: one client call, no device failure, one entity
InitMix == InitWith({1}, 1, MixSlow, 1, 0)

SpecMix == InitMix /\ [][Next]_vars

\* the loop threads alone under start() and stop(), every iteration over
\* budget, just enough of them for one rate reduction: one entity
NextRace ==
  \/ Start
  \/ Stop
  \/ \E t \in Threads : ThreadNext(t)

InitRace == InitWith({1}, MaxCalls, RaceSlow, 0, 0)

SpecRace == InitRace /\ [][NextRace]_vars

\* an engine whose loop never runs out of iterations, all within budget (the
\* loop sleeps out the rest of each period with the simulation mutex free),
\* under LiveCalls client calls: one entity
InitLive == InitWith({1}, LiveCalls, 0, Unlimited, 0)

\* every thread that can move does; a caller blocked in Mutex::lock is woken
\* at each release and gets the mutex if it is released again and again
FairnessLive ==
  /\ \A t \in Threads : WF_vars(ThreadNext(t))
  /\ WF_vars(GetStateContext)
  /\ SF_vars(GetStateLock)
  /\ WF_vars(GetBoidsContext)
  /\ WF_vars(GetStateRead)

SpecLive == InitLive /\ [][Next]_vars /\ FairnessLive

\* ------------------------------------------- BroadcastState::encode(engine)
\* the encode latencies start.elapsed().as_millis() may give
Stamps == {i * 65793 : i \in 0..MaxStamp}

\* let state = engine.get_state()?: the call
EncodeCall ==
  /\ epc = "idle"
  /\ rpc = "idle"
  /\ callsLeft > 0
  /\ callsLeft' = callsLeft - 1
  /\ epc' = "state"
  /\ rpc' = "ctx"
  /\ retries' = MAX_RETRIES
  /\ readResult' = NoResult
  /\ ctxCreated' = TRUE
  /\ UNCHANGED <<sim, simLock, engineVars, threadVars, countSeen, startResult,
                 historyVars, slowLeft, fastLeft, failLeft, snapshot, frame,
                 codecVars, streamVars, mx>>

\* get_state() has returned: its error is passed on; otherwise num_boids()
\* under the lock, the packing loop and the timestamp
EncodeFinish ==
  /\ epc = "state"
  /\ rpc = "idle"
  /\ readResult.called
  /\ epc' = "idle"
  /\ IF ~readResult.ok
     THEN /\ snapshot' = NoSnapshot
          /\ UNCHANGED countSeen
     ELSE /\ MutexFree(simLock)
          /\ countSeen' = sim.num_boids
          /\ \E ts \in Stamps :
               snapshot' = Encoded([i \in 1..Len(readResult.value) |->
                                      F32OfInt(readResult.value[i])],
                                   sim.num_boids, ts)
  /\ UNCHANGED <<sim, simLock, engineVars, threadVars, rpc, retries,
                 readResult, startResult, historyVars, envVars, ctxCreated,
                 frame, codecVars, streamVars, mx>>

\* a connection's send task frames the snapshot it received
SendFrame ==
  /\ snapshot.made
  /\ frame.state # snapshot
  /\ frame' = [bytes |-> Frame(snapshot), state |-> snapshot, sent |-> TRUE]
  /\ UNCHANGED <<sim, simLock, engineVars, threadVars, readerVars, startResult,
                 historyVars, envVars, ctxCreated, epc, snapshot, codecVars, streamVars, mx>>

NextEncode ==
  \/ Start
  \/ Stop
  \/ EncodeCall
  \/ EncodeFinish
  \/ SendFrame
  \/ ReaderNext
  \/ \E t \in Threads : ThreadNext(t)

\* the engine under a periodic encoder: EncCalls client calls
InitEncode == InitWith(1..MaxBoids, EncCalls, 0, MaxFast, MaxFail)

SpecEncode == InitEncode /\ [][NextEncode]_vars

\* ------------------------------------------------- the codec on its own
\* f32 values a snapshot of the Model holds: positions in [0, 1], velocity
\* components within the speed limit
SampleFloats ==
  <<F32Zero, F32(0, 123, 5033165), F32(0, 126, 8388607), F32(1, 122, 5033165),
    F32(0, 126, 0), F32(0, 121, 7717519), F32(0, 103, 0), F32(1, 121, 7771206),
    F32(0, 126, 0)>>

\* the values of n entities, read off the samples from position k on
Window(k, n) ==
  [i \in 1..(FIELDS_PER_BOID * n) |->
     SampleFloats[((k + i - 2) % Len(SampleFloats)) + 1]]

SnapshotFloats ==
  {Window(k, n) : k \in 1..Len(SampleFloats), n \in 0..MaxSnap}

engineData == <<sim, simLock, engineVars, threadVars, readerVars, startResult,
                historyVars, envVars, ctxCreated, encVars>>
engineAll == <<engineData, mx>>

\* encode of an engine whose get_state() returns floatsA
EncodeCurr ==
  /\ ~curr.made
  /\ \E ts \in Stamps :
       curr' = Encoded(floatsA, Len(floatsA) \div FIELDS_PER_BOID, ts)
  /\ UNCHANGED <<engineAll, streamVars, floatsA, floatsB, prev, delta, decoded>>

\* encode of an engine whose get_state() returns floatsB
EncodePrev ==
  /\ ~prev.made
  /\ \E ts \in Stamps :
       prev' = Encoded(floatsB, Len(floatsB) \div FIELDS_PER_BOID, ts)
  /\ UNCHANGED <<engineAll, streamVars, floatsA, floatsB, curr, delta, decoded>>

\* DeltaState::encode_delta(&curr, &prev)
EncodeDeltaCall ==
  /\ curr.made /\ prev.made
  /\ ~delta.made
  /\ delta' = EncodeDelta(curr, prev)
  /\ UNCHANGED <<engineAll, streamVars, floatsA, floatsB, curr, prev, decoded>>

\* BroadcastState::decode on the payload of curr, whole or cut short by up
\* to MaxCut bytes
DecodeCall ==
  /\ curr.made
  /\ ~decoded.called
  /\ \E cut \in 0..MaxCut :
       /\ cut <= Len(curr.data)
       /\ decoded' = Decode(SubSeq(curr.data, 1, Len(curr.data) - cut))
  /\ UNCHANGED <<engineAll, streamVars, floatsA, floatsB, curr, prev, delta>>

NextCodec == EncodeCurr \/ EncodePrev \/ EncodeDeltaCall \/ DecodeCall

InitCodec ==
  /\ EngineInit({1}, 0, 0, 0, 0)
  /\ floatsA \in SnapshotFloats
  /\ floatsB \in SnapshotFloats
  /\ curr = NoSnapshot
  /\ prev = NoSnapshot
  /\ delta = NoDelta
  /\ decoded = NoDecode
  /\ StreamIdle

SpecCodec == InitCodec /\ [][NextCodec]_vars

\* ------------------------------------------------- the broadcast channel
\* tokio_broadcast::channel::<BroadcastState>(100)
CHANNEL_CAPACITY == 100
\* consecutive_empty > 60 && last_successful_send.elapsed().as_secs() > 1
KEEPALIVE_TICKS == 60
KEEPALIVE_SECS == 1

Min(a, b) == IF a <= b THEN a ELSE b

\* the Receivers alive: subscribed, and the send task that owns it not ended
Receivers == {c \in Conns : conn[c].pc = "open"}

\* Sender::send never waits: with no Receiver the value comes back in an
\* error, which the broadcast task drops; otherwise it is stored at the write
\* position, over the oldest value once CHANNEL_CAPACITY values are held
SendWhenRoom(tail, cursors) ==
  IF cursors = {} \/ \E n \in cursors : tail - n >= CHANNEL_CAPACITY
  THEN tail
  ELSE tail + 1

Send(tail, cursors) == IF cursors = {} THEN tail ELSE tail + 1

\* a receive that hands out the oldest retained value without moving on
TryRecvPeeks(next, tail, closed) ==
  IF tail - next > CHANNEL_CAPACITY
  THEN [res |-> "Lagged", next |-> tail - CHANNEL_CAPACITY, seq |-> 0]
  ELSE IF next < tail THEN [res |-> "Ok", next |-> next, seq |-> next]
  ELSE IF closed THEN [res |-> "Closed", next |-> next, seq |-> 0]
  ELSE [res |-> "Empty", next |-> next, seq |-> 0]

\* Receiver::try_recv at read position next: the value at that position if
\* the channel still holds it; Lagged, and the position moved to the oldest
\* value held, if it was overwritten; Closed or Empty at the write position
TryRecv(next, tail, closed) ==
  IF tail - next > CHANNEL_CAPACITY
  THEN [res |-> "Lagged", next |-> tail - CHANNEL_CAPACITY, seq |-> 0]
  ELSE IF next < tail
  THEN [res |-> "Ok", next |-> next + 1, seq |-> next]
  ELSE IF closed
  THEN [res |-> "Closed", next |-> next, seq |-> 0]
  ELSE [res |-> "Empty", next |-> next, seq |-> 0]

\* what a send task puts on its socket: the binary frame of the snapshot
\* stored at position seq (latest: no later position was written when it was
\* received), a keepalive ping, the answer to a ping
Data(seq, newest) ==
  [kind |-> "data", seq |-> seq, latest |-> (seq = newest), payload |-> <<>>]
Ping == [kind |-> "ping", seq |-> 0, latest |-> FALSE, payload |-> <<>>]
PongEmpty(data) == [kind |-> "pong", seq |-> 0, latest |-> FALSE, payload |-> <<>>]
Pong(data) == [kind |-> "pong", seq |-> 0, latest |-> FALSE, payload |-> data]

\* the keepalive test of the Empty branch
KeepaliveDueUntimed(empty, secs) == empty > KEEPALIVE_TICKS
KeepaliveDue(empty, secs) == empty > KEEPALIVE_TICKS /\ secs > KEEPALIVE_SECS

\* sender.send(..).await: Ok, or Err while the network still fails
SendOutcomes == IF net.sendFails > 0 THEN BOOLEAN ELSE {TRUE}
FailsAfter(ok) == IF ok THEN net.sendFails ELSE net.sendFails - 1

\* the send task ends: the loop is left and the Receiver dropped
Exit(k, why) == [k EXCEPT !.pc = "closed", !.why = why]

\* an engine that is never started, over one Model of one entity
EngineAtRest ==
  /\ EngineInit({1}, 0, 0, 0, 0)
  /\ ~sim.has_ptx
  /\ seed = <<Boid(0, 1, 1, 2, 0)>>

\* websocket_handler: subscribe at the write position, then the send task
Subscribe(c) ==
  /\ conn[c].pc = "none"
  /\ \A d \in Conns : d < c => conn[d].pc # "none"
  /\ net.subs > 0
  /\ ~chanClosed
  /\ chanTail <= MaxEarly
  /\ conn' = [conn EXCEPT ![c] = [NoConn EXCEPT !.pc = "open", !.next = chanTail]]
  /\ net' = [net EXCEPT !.subs = @ - 1]
  /\ UNCHANGED <<chanTail, chanClosed, engineAll, codecVars>>

\* one turn of the broadcast task: encode on a blocking thread, and send the
\* snapshot if there is one (net.pubs: snapshots the channel still stores)
Publish ==
  /\ ~chanClosed
  /\ net.pubs > 0
  /\ \E encoded \in (IF net.encFails > 0 THEN BOOLEAN ELSE {TRUE}) :
       LET tail == IF encoded
                   THEN Send(chanTail, {conn[c].next : c \in Receivers})
                   ELSE chanTail
       IN /\ chanTail' = tail
          /\ net' = [net EXCEPT !.pubs = @ - (tail - chanTail),
                                !.encFails = IF encoded THEN @ ELSE @ - 1]
  /\ UNCHANGED <<chanClosed, conn, engineAll, codecVars>>

\* the server goes down: the broadcast task and the application state drop
\* their Senders
Shutdown ==
  /\ ~chanClosed
  /\ net.closes > 0
  /\ chanClosed' = TRUE
  /\ net' = [net EXCEPT !.closes = @ - 1]
  /\ UNCHANGED <<chanTail, conn, engineAll, codecVars>>

\* the tick branch of the send task's select!
Tick(c) ==
  /\ conn[c].pc = "open"
  /\ LET k == conn[c]
         r == TryRecv(k.next, chanTail, chanClosed)
         empty == k.consecutive_empty + 1
     IN CASE r.res = "Ok" ->
               /\ net.ticks > 0
               /\ \E ok \in SendOutcomes :
                    /\ conn' = [conn EXCEPT ![c] =
                         IF ok
                         THEN [k EXCEPT !.next = r.next,
                                        !.out = Append(@, Data(r.seq, chanTail - 1)),
                                        !.elapsed_secs = 0,
                                        !.consecutive_empty = 0,
                                        !.emptyRun = 0]
                         ELSE Exit([k EXCEPT !.next = r.next], "send failed")]
                    /\ net' = [net EXCEPT !.ticks = @ - 1,
                                          !.sendFails = FailsAfter(ok)]
          [] r.res = "Empty" ->
               /\ net.empties > 0
               /\ IF KeepaliveDue(empty, k.elapsed_secs)
                  THEN \E ok \in SendOutcomes :
                         /\ conn' = [conn EXCEPT ![c] =
                              IF ok
                              THEN [k EXCEPT !.out = Append(@, Ping),
                                             !.consecutive_empty = 0,
                                             !.emptyRun = @ + 1]
                              ELSE Exit([k EXCEPT !.consecutive_empty = empty,
                                                  !.emptyRun = @ + 1],
                                        "ping failed")]
                         /\ net' = [net EXCEPT !.empties = @ - 1,
                                               !.sendFails = FailsAfter(ok)]
                  ELSE /\ conn' = [conn EXCEPT ![c] =
                              [k EXCEPT !.consecutive_empty = empty,
                                        !.emptyRun = @ + 1]]
                       /\ net' = [net EXCEPT !.empties = @ - 1]
          [] r.res = "Closed" ->
               /\ conn' = [conn EXCEPT ![c] = Exit(k, "closed")]
               /\ UNCHANGED net
          [] r.res = "Lagged" ->
               /\ conn' = [conn EXCEPT ![c] = Exit([k EXCEPT !.next = r.next], "lagged")]
               /\ UNCHANGED net
  /\ UNCHANGED <<chanTail, chanClosed, engineAll, codecVars>>

\* a whole second goes by on the clock last_successful_send is read against
Elapse(c) ==
  /\ conn[c].pc = "open"
  /\ net.secs > 0
  /\ conn' = [conn EXCEPT ![c].elapsed_secs = Min(@ + 1, KEEPALIVE_SECS + 1)]
  /\ net' = [net EXCEPT !.secs = @ - 1]
  /\ UNCHANGED <<chanTail, chanClosed, engineAll, codecVars>>

\* what receiver.next() may give: a message, an error, the end of the stream
Payloads == {<<>>, <<1>>, <<2, 3>>}
InboundMsgs ==
  {[kind |-> k, payload |-> <<>>] :
     k \in {"close", "pong", "text", "binary", "error", "end"}}
  \cup {[kind |-> "ping", payload |-> p] : p \in Payloads}
  \cup {[kind |-> "text", payload |-> <<2, 3>>]}

\* the receiver branch of the send task's select!
Inbound(c, m) ==
  /\ conn[c].pc = "open"
  /\ net.inbound > 0
  /\ LET k == [conn[c] EXCEPT !.got = m]
     IN CASE m.kind \in {"close", "error", "end"} ->
               /\ conn' = [conn EXCEPT ![c] = Exit(k, m.kind)]
               /\ net' = [net EXCEPT !.inbound = @ - 1]
          [] m.kind = "ping" ->
               \E ok \in SendOutcomes :
                 /\ conn' = [conn EXCEPT ![c] =
                      IF ok THEN [k EXCEPT !.out = Append(@, Pong(m.payload))]
                            ELSE Exit(k, "pong failed")]
                 /\ net' = [net EXCEPT !.inbound = @ - 1,
                                       !.sendFails = FailsAfter(ok)]
          [] OTHER ->
               /\ conn' = [conn EXCEPT ![c] = k]
               /\ net' = [net EXCEPT !.inbound = @ - 1]
  /\ UNCHANGED <<chanTail, chanClosed, engineAll, codecVars>>

ConnNext(c) == Tick(c) \/ Elapse(c) \/ \E m \in InboundMsgs : Inbound(c, m)

NextStream ==
  \/ Publish
  \/ Shutdown
  \/ \E c \in Conns : Subscribe(c)
  \/ \E c \in Conns : ConnNext(c)

\* the producer and the tick branches alone
NextFanout ==
  \/ Publish
  \/ \E c \in Conns : Subscribe(c)
  \/ \E c \in Conns : Tick(c)

\* a producer that fills the channel past its capacity, MaxConns connections
\* accepted while the channel holds at most MaxEarly snapshots, MaxTicks
\* ticks that find a snapshot, one send that fails
InitStream ==
  /\ EngineAtRest
  /\ CodecIdle
  /\ StreamWith([Quiet EXCEPT !.subs = MaxConns,
                              !.pubs = CHANNEL_CAPACITY + MaxExtra,
                              !.ticks = MaxTicks,
                              !.sendFails = 1])

SpecStream == InitStream /\ [][NextFanout]_vars

\* the producer, the clock and the tick branches
NextIdle ==
  \/ Publish
  \/ \E c \in Conns : Subscribe(c)
  \/ \E c \in Conns : Tick(c) \/ Elapse(c)

\* one connection on a channel that stays empty for long: one snapshot, and
\* MaxIdle empty ticks more than the keepalive needs
InitIdle ==
  /\ EngineAtRest
  /\ CodecIdle
  /\ StreamWith([Quiet EXCEPT !.subs = 1,
                              !.pubs = 1,
                              !.ticks = 1,
                              !.empties = KEEPALIVE_TICKS + MaxIdle,
                              !.secs = KEEPALIVE_SECS + 1,
                              !.sendFails = 1])

SpecIdle == InitIdle /\ [][NextIdle]_vars

\* one connection whose client talks back, under a server that may go down
InitConn ==
  /\ EngineAtRest
  /\ CodecIdle
  /\ StreamWith([subs |-> 1, pubs |-> 1, encFails |-> 1, ticks |-> 1,
                 empties |-> 1, secs |-> 1, sendFails |-> 1,
                 inbound |-> MaxInbound, closes |-> 1])

SpecConn == InitConn /\ [][NextStream]_vars

\* --------------------------------------- the engine's mutexes: the threads
\* a client thread enters one of the engine's methods
Call(p, program) ==
  /\ mx.todo[p] = <<>>
  /\ mx' = [mx EXCEPT !.todo[p] = program]
  /\ UNCHANGED <<engineData, codecVars, streamVars>>

FreeSlots == {t \in LoopProcs : mx.todo[t] = <<>>}

\* the tests and writes of the running flag, all made by the thread that
\* holds the flag's mutex: start() returns, and the loop breaks, by dropping
\* the guard
FlagOps ==
  {"return_if_running", "break_unless_running", "set_running",
   "clear_running"}

FlagStep(s, p) ==
  LET kind == Head(s.todo[p])[1]
      rest == Tail(s.todo[p])
  IN CASE kind = "return_if_running" ->
            [s EXCEPT !.todo[p] =
               IF s.running THEN <<Unlock("running")>> ELSE rest]
       [] kind = "break_unless_running" ->
            [s EXCEPT !.todo[p] =
               IF s.running THEN rest ELSE <<Unlock("running")>>]
       [] kind = "set_running" ->
            [s EXCEPT !.running = TRUE, !.todo[p] = rest]
       [] kind = "clear_running" ->
            [s EXCEPT !.running = FALSE, !.todo[p] = rest]

\* thread p runs on to its next lock(), guard drop, spawn or adaptive block
RECURSIVE Settled(_, _)
Settled(s, p) ==
  IF s.todo[p] # <<>> /\ Head(s.todo[p])[1] \in FlagOps
  THEN Settled(FlagStep(s, p), p)
  ELSE s

\* the next statement of thread p; lock() waits while the mutex has an owner,
\* and a thread is spawned only within the bound on loop threads
Step(p) ==
  /\ mx.todo[p] # <<>>
  /\ LET kind == Head(mx.todo[p])[1]
         m == Head(mx.todo[p])[2]
         rest == Tail(mx.todo[p])
     IN CASE kind = "lock" ->
               /\ mx.owner[m] = 0
               /\ mx' = Settled([mx EXCEPT !.owner[m] = p, !.todo[p] = rest], p)
          [] kind = "unlock" ->
               mx' = [mx EXCEPT !.owner[m] = 0, !.todo[p] = rest]
          [] kind = "spawn" ->
               /\ FreeSlots # {}
               /\ LET t == CHOOSE f \in FreeSlots : \A g \in FreeSlots : f <= g
                  IN mx' = [mx EXCEPT !.todo[p] = rest, !.todo[t] = LoopProgram]
          [] kind = "adapt" ->
               \E a \in AdaptivePrograms :
                 mx' = [mx EXCEPT !.todo[p] = a \o LoopProgram]
  /\ UNCHANGED <<engineData, codecVars, streamVars>>

NextLocks ==
  \/ \E p \in Callers : \E program \in Handlers : Call(p, program)
  \/ \E p \in Procs : Step(p)

InitLocks == EngineAtRest /\ CodecIdle /\ StreamIdle

SpecLocks == InitLocks /\ [][NextLocks]_vars

\* ================================================================= claims
AllExited == \A t \in Threads : pc[t] \in {"none", "exited"}
SomeAlive == \E t \in Threads : pc[t] \notin {"none", "exited"}

\* C1: start() on a Running engine returns success, leaves it Running and
\* spawns nothing: after one or more start() calls with no stop() in between
\* exactly one loop thread has been spawned.
C1_StartIdempotent ==
  startsSinceStop >= 1 =>
    (spawnsSinceStop = 1 /\ running /\ startResult = "ok")

C1_Witness == startsSinceStop >= 2 /\ spawned = 1 /\ SomeAlive

\* C2: the step of a loop thread and the read of a get_state() caller never
\* overlap, and every state get_state() returns is the Model state after a
\* whole number of completed steps.
WholeStepStates == {Flatten(Iterate(seed, k)) : k \in 0..(Wrap - 1)}

C2_ReadsWholeSteps ==
  /\ ~(rpc \in {"boids_ctx", "read"} /\ \E t \in Threads : pc[t] = "step")
  /\ readResult.ok => readResult.value \in WholeStepStates

C2_Witness ==
  /\ readResult.ok
  /\ readResult.value # Flatten(seed)
  /\ Len(seed) >= 2
  /\ \E t \in Threads : pc[t] = "step" /\ stepIdx[t] = 1

\* C3: a successful read returns exactly the values the last successful step
\* produced, on the kernel path and on the CPU path.
C3_ReadReturnsLastStep ==
  [][(rpc = "read" /\ rpc' = "idle" /\ readResult'.ok)
       => readResult'.value = Flatten(produced)]_vars

C3_Witness ==
  /\ readResult.ok
  /\ sim.last_used_cuda
  /\ produced # seed
  /\ readResult.value = Flatten(produced)

\* C4: with stop() never called, the loop started by a successful start()
\* never exits: whenever the engine is running a loop thread is alive.
C4_NeverSilentlyStops == (stops = 0 /\ running) => SomeAlive

\* C5: after stop() returns, and until start() is called again, a loop
\* thread returns from at most one further step.
C5_StopOneStepDelay == stopPending => \A t \in Threads : stepsAfterStop[t] <= 1

C5_Witness ==
  stopPending /\ \E t \in Threads : stepsAfterStop[t] = 1 /\ pc[t] = "exited"

\* C6: after stop(), unless start() is called again, every loop thread
\* eventually exits (fair scheduling).
C6_StopLeadsToExit == stopPending ~> (~stopPending \/ AllExited)

C6_Witness ==
  stopPending /\ AllExited /\ \E t \in Threads : exitWhy[t] = "stopped"

\* C7: a step that returns an error leaves the running flag as it is and the
\* loop thread goes on: to its frame tracking, from there to the top of the
\* next iteration and, while running, to the next step.
C7_StepErrorKeepsLooping ==
  [][\A t \in Threads :
       /\ (pc[t] \in {"lock", "step"} /\ pc'[t] \notin {"lock", "step"}
             /\ lastStep'[t] = "err")
            => (running' = running /\ pc'[t] = "track")
       /\ (pc[t] = "track" /\ pc'[t] # "track") => pc'[t] = "top"
       /\ (pc[t] = "top" /\ running /\ pc'[t] # "top") => pc'[t] = "lock"]_vars

C7_Witness == \E t \in Threads : lastStep[t] = "err" /\ pc[t] = "step"

\* C8: the target rate never rises from one state to the next, whatever the
\* mix of over-budget and under-budget iterations.
C8_RateNeverRises == [][target_fps' <= target_fps]_vars

C8_Witness ==
  /\ target_fps < INITIAL_FPS * FpsScale
  /\ \E i \in 1..Len(frame_times) : ~frame_times[i]
  /\ \E i \in 1..Len(frame_times) : frame_times[i]

\* C9: the target rate stays between the floor and the initial rate.
C9_RateWithinBounds ==
  /\ MIN_FPS * FpsScale <= target_fps
  /\ target_fps <= INITIAL_FPS * FpsScale

C9_Witness ==
  /\ target_fps = MIN_FPS * FpsScale
  /\ consecutive_delays >= ADAPTIVE_THRESHOLD

\* C10: the entity count never changes and every successful get_state()
\* returns the construction count times four values.
C10_EntityCountFixed ==
  /\ sim.num_boids = Len(seed)
  /\ readResult.ok => Len(readResult.value) = Len(seed) * FIELDS_PER_BOID
  /\ countSeen # 0 => countSeen = Len(seed)

C10_Witness ==
  /\ readResult.ok
  /\ countSeen # 0
  /\ frame_count >= 1
  /\ Len(seed) = MaxBoids

C12_ContextRetriedThenSurfaced ==
  /\ rpc = "ctx" => retries \in 1..MAX_RETRIES
  /\ rpc \in {"lock", "boids_ctx"} => ctxCreated

\* C13: once stop() has returned and every loop thread has exited, the Model
\* state no longer changes and every get_state() whose device copies succeed
\* returns it: the values of the last completed step, never an error and
\* never a partly stepped state.
C13_ReadAfterStop ==
  [][(stopPending /\ AllExited) =>
       /\ produced' = produced
       /\ (rpc = "read" /\ rpc' = "idle" /\ failLeft' = failLeft)
            => (readResult'.ok /\ readResult'.value = Flatten(produced))]_vars

C13_Witness ==
  /\ stopPending /\ AllExited
  /\ \E t \in Threads : exitWhy[t] = "stopped" /\ lastStep[t] = "ok"
  /\ produced # seed
  /\ rpc = "read"

\* C14: decoding the payload that encoding a snapshot float sequence S
\* produced yields S, value for value (bit for bit) and in the same order.
C14_RoundTrip ==
  (decoded.called /\ decoded.input = Pack(floatsA))
    => (decoded.ok /\ decoded.value = floatsA)

C14_Witness ==
  /\ decoded.called
  /\ decoded.input = curr.data
  /\ Len(floatsA) = FIELDS_PER_BOID * MaxSnap
  /\ decoded.value = floatsA

\* C15: decode returns a framing error and no values for a payload whose
\* length is not a multiple of 4, and length / 4 values for one whose length is.
C15_DecodeRejectsPartialWord ==
  decoded.called =>
    IF Len(decoded.input) % BYTES_PER_F32 = 0
    THEN decoded.ok /\ Len(decoded.value) = Len(decoded.input) \div BYTES_PER_F32
    ELSE ~decoded.ok /\ decoded.value = <<>>

\* C16: a snapshot encoded from an engine of N entities has a payload of
\* N x 16 bytes and the entity count N, whatever the engine does meanwhile.
C16_EncodeSize ==
  snapshot.made =>
    /\ Len(snapshot.data) = Len(seed) * FIELDS_PER_BOID * BYTES_PER_F32
    /\ snapshot.num_boids = Len(seed)

C16_Witness ==
  /\ snapshot.made
  /\ Len(seed) = MaxBoids
  /\ running
  /\ produced # seed
  /\ \E t \in Threads : pc[t] = "step"

\* C17: for snapshots of different entity counts encode_delta succeeds and
\* returns the current snapshot's payload and count.
C17_DeltaFallback ==
  (delta.made /\ curr.num_boids # prev.num_boids) =>
    /\ delta.ok
    /\ delta.deltas = curr.data
    /\ delta.num_boids = curr.num_boids

C17_Witness ==
  /\ delta.made
  /\ curr.num_boids > prev.num_boids
  /\ prev.num_boids > 0
  /\ delta.deltas = curr.data

\* C18: for snapshots of equal entity count the delta payload has one
\* 4-byte word per field of the current snapshot, hence the length of the
\* current payload, and the delta carries the current count.
C18_DeltaLayout ==
  (delta.made /\ curr.num_boids = prev.num_boids) =>
    /\ Len(delta.deltas) = BYTES_PER_F32 * Len(floatsA)
    /\ Len(delta.deltas) = Len(curr.data)
    /\ delta.num_boids = curr.num_boids

C18_Witness ==
  /\ delta.made
  /\ curr.num_boids = prev.num_boids
  /\ curr.num_boids = MaxSnap
  /\ \E i \in 1..Len(floatsA) : floatsA[i] = floatsB[i]
  /\ \E i \in 1..Len(floatsA) : floatsA[i] # floatsB[i]

\* C19: for snapshots of equal entity count, each decoded delta field added
\* to the same field of the previous snapshot gives the field of the current
\* snapshot to within 0.0001, field by field in the same order.
Reconstructed ==
  LET d == DecodeWords(delta.deltas)
      b == DecodeWords(prev.data)
  IN [i \in 1..Len(d) |-> FAdd(d[i], b[i])]

C19_DeltaReconstructs ==
  (delta.made /\ curr.num_boids = prev.num_boids) =>
    /\ Len(Reconstructed) = Len(floatsA)
    /\ \A i \in 1..Len(floatsA) :
         BelowTolerance(FSub(Reconstructed[i], floatsA[i]))

C19_Witness ==
  /\ delta.made
  /\ curr.num_boids = prev.num_boids
  /\ \E i \in 1..Len(floatsA) : Reconstructed[i] # floatsA[i]
  /\ \E i \in 1..Len(floatsA) : floatsA[i] # floatsB[i] /\ Reconstructed[i] = floatsA[i]

\* C20: a data frame is the 8-byte little-endian timestamp, the 4-byte
\* little-endian entity count and the payload: 12 + payload-length bytes,
\* the payload being entity count x 16 bytes long.
C20_FrameLayout ==
  frame.sent =>
    /\ Len(frame.bytes) = 12 + Len(frame.state.data)
    /\ FromLe(SubSeq(frame.bytes, 1, 8)) = frame.state.timestamp
    /\ FromLe(SubSeq(frame.bytes, 9, 12)) = frame.state.num_boids
    /\ Rest(frame.bytes, 12) = frame.state.data
    /\ Len(Rest(frame.bytes, 12))
         = FromLe(SubSeq(frame.bytes, 9, 12)) * FIELDS_PER_BOID * BYTES_PER_F32

C20_Witness ==
  /\ frame.sent
  /\ frame.state.timestamp > 65535
  /\ frame.state.num_boids = MaxBoids
  /\ frame.state.data # Pack([i \in 1..(FIELDS_PER_BOID * MaxBoids) |-> F32Zero])

\* C21: a subscriber that has fallen behind by more than the channel holds
\* misses the snapshots in between, and its send loop keeps running: no step
\* ends the connection of a Receiver whose read position was overwritten.
Lagging(c) ==
  conn[c].pc = "open" /\ chanTail - conn[c].next > CHANNEL_CAPACITY

C21_LaggedStaysConnected ==
  [][\A c \in Conns : Lagging(c) => conn'[c].pc = "open"]_vars

\* C22: no subscriber, slow or failing, holds up the producer or another
\* subscriber: with a Receiver alive the producer's send stores its snapshot
\* whatever the read positions are, a step of one connection changes nothing
\* of another connection nor of the channel, and a failed send ends the send
\* loop of its own connection only.
Stores == Publish /\ chanTail' = chanTail + 1

C22_SubscribersIndependent ==
  /\ [](Receivers # {} /\ net.pubs > 0 => ENABLED Stores)
  /\ [][\A c \in Conns : conn'[c] # conn[c] =>
          /\ \A d \in Conns \ {c} : conn'[d] = conn[d]
          /\ chanTail' = chanTail
          /\ net'.sendFails < net.sendFails => conn'[c].pc = "closed"]_vars

C22_Witness ==
  \E c, d \in Conns :
    /\ conn[c].pc = "closed" /\ conn[c].why = "lagged"
    /\ conn[d].pc = "open" /\ conn[d].out # <<>>
    /\ chanTail > CHANNEL_CAPACITY
    /\ ~Lagging(d)

\* C23: a keepalive ping goes out only on a tick that ends a run of more
\* than 60 empty ticks with no data frame sent for more than a second; a
\* data frame and a ping both set the empty-tick count to zero; and while
\* the channel is empty no step ends the send loop unless a send fails.
Sends(c, kind) ==
  /\ Len(conn'[c].out) = Len(conn[c].out) + 1
  /\ conn'[c].out[Len(conn'[c].out)].kind = kind

C23_Keepalive ==
  [][\A c \in Conns :
       /\ Sends(c, "ping") =>
            /\ conn[c].emptyRun + 1 > KEEPALIVE_TICKS
            /\ conn[c].elapsed_secs > KEEPALIVE_SECS
            /\ conn'[c].consecutive_empty = 0
       /\ Sends(c, "data") => conn'[c].consecutive_empty = 0
       /\ ( /\ conn[c].pc = "open"
            /\ conn[c].next = chanTail
            /\ net'.sendFails = net.sendFails ) => conn'[c].pc = "open"]_vars

C23_Witness ==
  \E c \in Conns :
    /\ conn[c].pc = "open"
    /\ Len(conn[c].out) = 2
    /\ conn[c].out[1].kind = "data"
    /\ conn[c].out[2].kind = "ping"
    /\ conn[c].consecutive_empty = 0

\* C24: an inbound ping is answered with a pong of the same payload (the
\* loop ends if that send fails); an inbound close, a receive error and the
\* end of the inbound stream end the loop; any other inbound message
\* changes nothing.
C24_Inbound ==
  [][\A c \in Conns : \A m \in InboundMsgs : Inbound(c, m) =>
       CASE m.kind = "ping" ->
              IF net'.sendFails = net.sendFails
              THEN /\ conn'[c].pc = "open"
                   /\ conn'[c].out = Append(conn[c].out, Pong(m.payload))
                   /\ conn'[c].out[Len(conn'[c].out)].payload = m.payload
              ELSE conn'[c].pc = "closed"
         [] m.kind \in {"close", "error", "end"} -> conn'[c].pc = "closed"
         [] OTHER -> conn'[c] = [conn[c] EXCEPT !.got = m]]_vars

C24_Witness ==
  \E c \in Conns :
    /\ conn[c].pc = "open"
    /\ conn[c].got.kind = "ping"
    /\ conn[c].got.payload = <<2, 3>>
    /\ conn[c].out # <<>>
    /\ conn[c].out[Len(conn[c].out)].kind = "pong"
    /\ conn[c].out[Len(conn[c].out)].payload = <<2, 3>>

\* C25: once start() has set the engine running, with a loop thread that is
\* scheduled and a device context it can create, the frame count goes past
\* every value it has (below the value the count is followed to) unless
\* stop() intervenes; and no step ever lowers the frame count.
C25_FramesAdvance ==
  /\ [][frame_count' >= frame_count]_vars
  /\ \A n \in 0..(MaxFrames - 1) :
       (running /\ frame_count = n) ~> (frame_count > n \/ ~running)

C25_Witness ==
  /\ running
  /\ stops = 0
  /\ frame_count = MaxFrames
  /\ SomeAlive

\* C26: between Model operations exactly one of soa_dirty and aos_dirty is
\* set, and a synchronization copy into a stale layout clears that layout's
\* flag and sets the flag of the layout that was authoritative.
Synced(flag, other) == flag /\ ~flag'

C26_ExactlyOneStale ==
  /\ [](simLock = NoOwner => sim.soa_dirty # sim.aos_dirty)
  /\ [][/\ Synced(sim.aos_dirty, sim.soa_dirty) => sim'.soa_dirty
        /\ Synced(sim.soa_dirty, sim.aos_dirty) => sim'.aos_dirty]_vars

\* C26 as amended: at most one of the two flags is set, both being clear on
\* the kernel path after construction and after a synchronization copy; a
\* synchronization copy into a stale layout clears that layout's flag and
\* leaves the other layout's flag clear.
C26_AtMostOneStale ==
  /\ [](/\ ~(sim.soa_dirty /\ sim.aos_dirty)
        /\ (simLock = NoOwner /\ ~UsesKernel(sim)) => sim.soa_dirty # sim.aos_dirty)
  /\ [][/\ Synced(sim.aos_dirty, sim.soa_dirty) =>
             ~sim.soa_dirty /\ ~sim'.soa_dirty /\ ~sim'.aos_dirty
        /\ Synced(sim.soa_dirty, sim.aos_dirty) =>
             ~sim.aos_dirty /\ ~sim'.aos_dirty /\ ~sim'.soa_dirty]_vars

C26_Witness ==
  /\ UsesKernel(sim)
  /\ simLock = NoOwner
  /\ sim.last_used_cuda
  /\ readResult.ok
  /\ ~sim.aos_dirty
  /\ ~sim.soa_dirty

\* C27: on the iteration that brings the consecutive-delay counter to 50 the
\* target rate becomes 0.9 times itself, clamped to the floor, and the
\* counter is set back to zero, at every rate the engine reaches, the floor
\* included.
Tracks(t) == pc[t] = "track" /\ pc'[t] = "top"

C27_ThresholdResets ==
  [][\A t \in Threads :
       (Tracks(t) /\ over[t] /\ consecutive_delays + 1 = ADAPTIVE_THRESHOLD) =>
         /\ target_fps' = ReducedFps(target_fps)
         /\ consecutive_delays' = 0]_vars

\* C28: an iteration within budget sets the delay counter to zero at once,
\* so the rate is reduced only on an iteration that ends 50 over-budget
\* iterations in a row: 49 slow steps, one fast step and 49 slow steps
\* reduce nothing.
RECURSIVE TrailingOver(_)
TrailingOver(times) ==
  IF times = <<>> \/ ~times[Len(times)] THEN 0
  ELSE 1 + TrailingOver(SubSeq(times, 1, Len(times) - 1))

C28_FastStepResets ==
  [][\A t \in Threads : Tracks(t) =>
       /\ ~over[t] => consecutive_delays' = 0
       /\ target_fps' # target_fps =>
            /\ over[t]
            /\ TrailingOver(frame_times') >= ADAPTIVE_THRESHOLD]_vars

C28_Witness ==
  /\ Len(frame_times) = 2 * ADAPTIVE_THRESHOLD - 1
  /\ \A i \in 1..Len(frame_times) : frame_times[i] <=> i # ADAPTIVE_THRESHOLD
  /\ target_fps = INITIAL_FPS * FpsScale
  /\ consecutive_delays = ADAPTIVE_THRESHOLD - 1

\* C29: a tick does one non-blocking receive, and when several snapshots
\* were published since the connection's last send the frame sent on that
\* tick carries the most recently published one: every data frame a
\* connection has sent was the latest snapshot when it was received.
C29_SendsLatest ==
  \A c \in Conns : \A i \in 1..Len(conn[c].out) :
    conn[c].out[i].kind = "data" => conn[c].out[i].latest

\* C30: a delta built from two snapshots of the same entity count has the
\* previous snapshot's timestamp as its base, and base plus delta timestamp
\* is the current snapshot's timestamp, for every pair of timestamps.
C30_DeltaTimestamps ==
  (delta.made /\ curr.num_boids = prev.num_boids) =>
    /\ delta.base_timestamp = prev.timestamp
    /\ delta.base_timestamp + delta.delta_timestamp = curr.timestamp

C32_SingleWriter ==
  [][target_fps' # target_fps =>
       \E t \in Threads :
         /\ Tracks(t)
         /\ \A u \in Threads \ {t} : pc[u] \in {"none", "exited"}]_vars

\* C33: a tick that finds the channel closed ends the send loop with nothing
\* sent, an ended loop sends nothing further, and a send loop ends only on
\* the channel-closed condition, a failed send or an inbound close, error or
\* end of stream.
ExitCauses ==
  {"closed", "send failed", "ping failed", "pong failed", "close", "error",
   "end"}

Ticks(c) ==
  /\ conn[c].pc = "open"
  /\ conn'[c] # conn[c]
  /\ net'.inbound = net.inbound
  /\ net'.secs = net.secs

C33_ClosedEndsLoop ==
  /\ [](\A c \in Conns : conn[c].pc = "closed" => conn[c].why \in ExitCauses)
  /\ [][\A c \in Conns :
          /\ conn[c].pc = "closed" => conn'[c] = conn[c]
          /\ (Ticks(c) /\ TryRecv(conn[c].next, chanTail, chanClosed).res = "Closed")
               => conn'[c] = Exit(conn[c], "closed")]_vars

\* C34: the step-duration history never holds more than 100 entries, and
\* after every loop iteration it is the history before it with the new
\* duration at the end, cut down from the front to the 100 most recent.
C34_HistoryBounded ==
  /\ [](Len(frame_times) <= FRAME_TIME_HISTORY_SIZE)
  /\ [][\A t \in Threads : Tracks(t) =>
          LET all == Append(frame_times, over[t])
              n == Min(Len(all), FRAME_TIME_HISTORY_SIZE)
          IN frame_times' = [i \in 1..n |-> all[Len(all) - n + i]]]_vars

C34_Witness ==
  /\ Len(frame_times) = FRAME_TIME_HISTORY_SIZE
  /\ ~frame_times[1]
  /\ slowLeft = 0
  /\ fastLeft = 0

\* C35: over any interleaving of start() and stop() calls at most one loop
\* thread is alive at a time, so at most one thread is ever in Model.step.
LoopThreads == {t \in Threads : pc[t] \notin {"none", "exited"}}

C35_OneLoopThread == Cardinality(LoopThreads) <= 1

\* C36: no interleaving of the loop thread with callers of start(), stop()
\* and the accessors deadlocks on the engine's mutexes: no thread waits for a
\* mutex whose owner waits, directly or through other waiting threads, for a
\* mutex of the first.
Waits(p) ==
  /\ mx.todo[p] # <<>>
  /\ Head(mx.todo[p])[1] = "lock"
  /\ mx.owner[Head(mx.todo[p])[2]] # 0

Holder(p) == mx.owner[Head(mx.todo[p])[2]]

RECURSIVE WaitsForever(_, _)
WaitsForever(p, n) ==
  Waits(p) /\ (n = 0 \/ WaitsForever(Holder(p), n - 1))

C36_NoDeadlock == \A p \in Procs : ~WaitsForever(p, Cardinality(Procs))

C36_Witness ==
  \E l \in LoopProcs : \E c \in Callers :
    /\ mx.owner["consecutive_delays"] = l
    /\ mx.owner["running"] = c
    /\ mx.owner["target_fps"] = c
    /\ Waits(l)
    /\ Holder(l) = c

\* C37: the two layouts are never both stale, whatever steps and reads have
\* succeeded or failed on either path, and between Model calls the layout
\* whose flag is clear holds the values of the last successful step.
C37_NeverBothStale ==
  /\ ~(sim.soa_dirty /\ sim.aos_dirty)
  /\ simLock = NoOwner =>
       IF sim.aos_dirty THEN sim.d = ScalarsFromBoids(produced)
                        ELSE sim.boids = produced

C37_Witness ==
  /\ simLock = NoOwner
  /\ sim.aos_dirty
  /\ readResult.called /\ ~readResult.ok
  /\ \E t \in Threads : lastStep[t] = "ok"
  /\ produced # seed

\* C38: a step that returns an error leaves soa_dirty, aos_dirty and
\* last_used_cuda as they were before the call, on both paths: within a step
\* the three flags change only as the step returns Ok.
Coherency(s) == <<s.soa_dirty, s.aos_dirty, s.last_used_cuda>>

C38_FailedStepKeepsFlags ==
  [][\A t \in Threads :
       (pc[t] \in {"lock", "step"}
          /\ <<pc[t], stepIdx[t]>> # <<pc'[t], stepIdx'[t]>>
          /\ Coherency(sim') # Coherency(sim))
         => (pc'[t] = "track" /\ lastStep'[t] = "ok")]_vars

C38_Witness ==
  \E t \in Threads :
    /\ pc[t] = "track"
    /\ lastStep[t] = "err"
    /\ sim.last_used_cuda
    /\ sim.aos_dirty

\* C39: the data frames sent on one connection carry snapshots in the order
\* they were published, each at most once, and only snapshots published
\* after the connection subscribed: a connection starts at the channel's
\* write position, its read position never goes back, and each frame it
\* sends carries a published snapshot at or after its read position.
DataSeqs(c) ==
  LET out == conn[c].out
  IN [i \in {k \in 1..Len(out) : out[k].kind = "data"} |-> out[i].seq]

C39_PublishOrder ==
  /\ [](\A c \in Conns :
         \A i, j \in DOMAIN DataSeqs(c) :
           /\ DataSeqs(c)[i] < chanTail
           /\ i < j => DataSeqs(c)[i] < DataSeqs(c)[j])
  /\ [][\A c \in Conns :
          /\ (conn[c].pc = "none" /\ conn'[c].pc = "open")
               => (conn'[c].next = chanTail /\ conn'[c].out = <<>>)
          /\ conn[c].pc = "open" => conn'[c].next >= conn[c].next
          /\ (Len(conn'[c].out) > Len(conn[c].out)
                /\ conn'[c].out[Len(conn'[c].out)].kind = "data")
               => LET seq == conn'[c].out[Len(conn'[c].out)].seq
                  IN /\ conn[c].next <= seq
                     /\ seq < conn'[c].next]_vars

C39_Witness ==
  \E c \in Conns :
    /\ Len(conn[c].out) >= 2
    /\ conn[c].out[1].kind = "data" /\ conn[c].out[1].seq >= 1
    /\ conn[c].out[2].kind = "data"
    /\ chanTail > conn[c].next

\* C40: of the start() calls racing on a Stopped engine one sees Stopped:
\* a caller that has seen the flag cleared holds the flag's mutex, with the
\* flag set, until it has spawned the thread, so no second caller is past
\* the test at the same time, and a thread is spawned by that caller alone.
SawStopped(p) ==
  /\ mx.todo[p] # StartProgram
  /\ \E i \in DOMAIN mx.todo[p] : mx.todo[p][i] = Op("spawn")

C40_OneStartSpawns ==
  /\ [](\A p, q \in Callers :
         /\ SawStopped(p) => (mx.owner["running"] = p /\ mx.running)
         /\ (SawStopped(p) /\ SawStopped(q)) => p = q)
  /\ [][\A t \in LoopProcs :
          (mx.todo[t] = <<>> /\ mx'.todo[t] # <<>>) =>
            \E p \in Callers :
              /\ SawStopped(p)
              /\ ~SawStopped(p)'
              /\ \A q \in Callers \ {p} :
                   mx.todo[q] # <<>> => mx'.todo[q] = mx.todo[q]]_vars

C40_Witness ==
  \E p, q \in Callers :
    /\ p # q
    /\ mx.todo[p] = <<Unlock("running")>>
    /\ mx.owner["running"] = p
    /\ mx.todo[q] = StartProgram
    /\ \E t \in LoopProcs : mx.todo[t] = LoopProgram
====
